---- MODULE Spec2Model ----
(***************************************************************************)
(* Model of cargo-bpf's build pipeline (cargo-bpf/src/build.rs):           *)
(* build_with_features, build_probe and check_tc_action_relocs.            *)
(*                                                                         *)
(* Strings are sequences of one-character strings, so that starts_with,    *)
(* slicing and format! are computed and not assumed.  Option<T> is a       *)
(* sequence of length 0 (None) or 1 (Some).  Indices are 0-based as in the *)
(* source; Get converts them.                                              *)
(***************************************************************************)
EXTENDS Integers, Sequences, FiniteSets, TLC

VARIABLES
    elf,         \* the parsed object handed to check_tc_action_relocs
    relocOut,    \* Option of its result
    pc,          \* position in build_with_features / build_probe
    probes,      \* the caller's `probes: &mut Vec<String>`
    features,    \* the active feature set
    doc,         \* Option of the loaded manifest's "bin" item
    idx,         \* position of the probe being built (1-based), 0 outside the loop
    result,      \* Option of the Result last returned
    fs,          \* probe workspace key -> contents of target_dir/bpf/programs/<key>
    loc,         \* build_probe's locals
    done,        \* the stages of build_probe the current attempt has run, and
                 \* the failures it went past ("remove_failed", "names_failed")
    ref,         \* the same attempt replayed against an empty workspace
    pubs,        \* the artifacts this run has published, by list position
    buildopt,    \* the caller's BuildOptions
    llvm,        \* the optimizing backend's process-wide state
    toolchain,   \* the LLVM cargo-bpf is linked to and the one rustc reports
    env,         \* value of the rustflags environment variable, if set
    rustflags    \* Option of what create_rustflags returns

relocVars == <<elf, relocOut>>

buildVars ==
    <<pc, probes, features, doc, idx, result, fs, loc, done, ref, pubs, buildopt, llvm,
      toolchain>>

flagVars == <<env, rustflags>>

vars == <<elf, relocOut, pc, probes, features, doc, idx, result, fs, loc,
          done, ref, pubs, buildopt, llvm, toolchain, env, rustflags>>

-----------------------------------------------------------------------------
(* Strings and options                                                      *)

Some(x) == <<x>>

None == <<>>

Get(seq, i) == IF i + 1 \in DOMAIN seq THEN Some(seq[i + 1]) ELSE None

starts_with(s, p) == Len(s) >= Len(p) /\ SubSeq(s, 1, Len(p)) = p

SliceFrom(s, n) == SubSeq(s, n + 1, Len(s))

SeqUpTo(S, n) == UNION {[1..k -> S] : k \in 0..n}

TcActionPrefix == <<"t", "c", "_", "a", "c", "t", "i", "o", "n", "/">>

RelTcActionPrefix == <<".", "r", "e", "l">> \o TcActionPrefix

-----------------------------------------------------------------------------
(* Errors and results                                                       *)

Ok == [kind |-> "Ok", a |-> <<>>, b |-> <<>>]

Err(kind, a, b) == [kind |-> kind, a |-> a, b |-> b]

-----------------------------------------------------------------------------
(* goblin's view of an ELF object                                           *)

STT_OBJECT == 1

STT_SECTION == 3

SymTypes == {STT_OBJECT, STT_SECTION}

\* Section-name string table: offset -> name.  Offsets outside its domain
\* make Strtab::get_at return None.
ShdrStrtab ==
    (0 :> <<>>)
    @@ (1 :> RelTcActionPrefix \o <<"a">>)
    @@ (2 :> <<".", "r", "o", "d", "a", "t", "a">>)
    @@ (3 :> <<".", "r", "e", "l", "t", "c", "_", "a", "c", "t", "i", "o", "n">>)

get_at(strtab, off) == IF off \in DOMAIN strtab THEN Some(strtab[off]) ELSE None

\* The section headers of the objects checked: a traffic-control relocation
\* table, a data section, a relocation table whose name stops short of the
\* prefix, and a header whose name is not in the string table.
SectionHeaders == <<[sh_name |-> 1], [sh_name |-> 2], [sh_name |-> 3], [sh_name |-> 4]>>

MaxSyms == 1

MaxRel == 1

\* Section indices, one of them past the section header table.
SectionIndices == 0..Len(SectionHeaders)

Syms == [st_shndx : SectionIndices, st_type : SymTypes]

\* Symbol indices, one of them past the symbol table.
Relocs == [r_sym : 0..MaxSyms]

RelSecs == [shidx : SectionIndices, relocs : SeqUpTo(Relocs, MaxRel)]

\* Objects with up to two relocation tables.
Elfs ==
    [section_headers : {SectionHeaders},
     shdr_strtab : {ShdrStrtab},
     syms : SeqUpTo(Syms, MaxSyms),
     shdr_relocs : {<<>>} \cup {<<t>> : t \in RelSecs}
                       \cup {<<t, u>> : t \in RelSecs, u \in RelSecs}]

-----------------------------------------------------------------------------
(* check_tc_action_relocs                                                   *)

\* CheckReloc with the symbol type compared against the wrong constant.
CheckRelocWrongType(binary, hdr_name, reloc) ==
    LET sym == Get(binary.syms, reloc.r_sym)
    IN  IF sym = None THEN None
        ELSE IF sym[1].st_type = STT_OBJECT
             THEN Some(Err("IllegalProgram", SliceFrom(hdr_name, 4), <<>>))
             ELSE None

\* The body of the inner loop for one relocation: None means `continue`,
\* Some(e) means `return Err(e)`.
CheckReloc(binary, hdr_name, reloc) ==
    LET sym == Get(binary.syms, reloc.r_sym)
    IN  IF sym = None THEN None
        ELSE LET sym_shdr == Get(binary.section_headers, sym[1].st_shndx)
             IN  IF sym_shdr = None THEN None
                 ELSE LET sym_hdr_name == get_at(binary.shdr_strtab, sym_shdr[1].sh_name)
                      IN  IF sym_hdr_name = None THEN None
                          ELSE IF sym[1].st_type = STT_SECTION
                               THEN Some(Err("IllegalProgram",
                                             SliceFrom(hdr_name, 4),
                                             sym_hdr_name[1]))
                               ELSE None

\* `for reloc in relsec.iter()` from position j on: the first error, if any.
RECURSIVE CheckRelocsFrom(_, _, _, _)
CheckRelocsFrom(binary, hdr_name, relocs, j) ==
    IF j > Len(relocs) THEN None
    ELSE LET r == CheckReloc(binary, hdr_name, relocs[j])
         IN  IF r # None THEN r
             ELSE CheckRelocsFrom(binary, hdr_name, relocs, j + 1)

\* RelSecName with the prefix test cut down to ".rel".
RelSecNameAnyRel(binary, relsec) ==
    LET shdr == Get(binary.section_headers, relsec.shidx)
    IN  IF shdr = None THEN None
        ELSE LET hdr_name == get_at(binary.shdr_strtab, shdr[1].sh_name)
             IN  IF hdr_name = None THEN None
                 ELSE IF ~starts_with(hdr_name[1], <<".", "r", "e", "l">>) THEN None
                      ELSE hdr_name

\* Whether the outer loop looks into this relocation table at all, and the
\* name it knows it by.
RelSecName(binary, relsec) ==
    LET shdr == Get(binary.section_headers, relsec.shidx)
    IN  IF shdr = None THEN None
        ELSE LET hdr_name == get_at(binary.shdr_strtab, shdr[1].sh_name)
             IN  IF hdr_name = None THEN None
                 ELSE IF ~starts_with(hdr_name[1], RelTcActionPrefix) THEN None
                      ELSE hdr_name

\* `for (shidx, relsec) in binary.shdr_relocs.iter()` from position i on.
RECURSIVE CheckRelSecsFrom(_, _)
CheckRelSecsFrom(binary, i) ==
    IF i > Len(binary.shdr_relocs) THEN Ok
    ELSE LET relsec == binary.shdr_relocs[i]
             name == RelSecName(binary, relsec)
             r == IF name = None THEN None
                  ELSE CheckRelocsFrom(binary, name[1], relsec.relocs, 1)
         IN  IF r # None THEN r[1] ELSE CheckRelSecsFrom(binary, i + 1)

check_tc_action_relocs(binary) == CheckRelSecsFrom(binary, 1)

-----------------------------------------------------------------------------
(* Formatting                                                               *)

Digits == <<"0", "1", "2", "3", "4", "5", "6", "7", "8", "9">>

\* `{}` of an unsigned integer in format!.
RECURSIVE ToStr(_)
ToStr(n) ==
    IF n < 10 THEN <<Digits[n + 1]>>
    ELSE ToStr(n \div 10) \o <<Digits[(n % 10) + 1]>>

KernelVersionEq ==
    <<"k", "e", "r", "n", "e", "l", "_", "v", "e", "r", "s", "i", "o", "n", "=", "\"">>

Unknown == <<"u", "n", "k", "n", "o", "w", "n">>

-----------------------------------------------------------------------------
(* create_rustflags                                                         *)

\* The ASCII unit separator, "\x1f" in the source.
US == "<US>"

EmbedBitcode ==
    <<"e", "m", "b", "e", "d", "-", "b", "i", "t", "c", "o", "d", "e", "=", "y", "e", "s">>

\* The toolchain cargo-bpf is compiled with selects one of the two
\* functions (rustversion, lines 99 and 112): encoded is TRUE from 1.55 on.
\* value is what std::env::var returns for the variable read: None for Err.
NoEnv == [encoded |-> TRUE, value |-> None]

\* create_rustflags returning the new flag alone.
create_rustflags_overwrite(e) ==
    IF e.encoded
    THEN [name |-> "CARGO_ENCODED_RUSTFLAGS", flags |-> <<"-", "C", US>> \o EmbedBitcode]
    ELSE [name |-> "RUSTFLAGS", flags |-> <<"-", "C", " ">> \o EmbedBitcode]

\* Lines 99-123.
create_rustflags(e) ==
    IF e.encoded
    THEN LET flags == IF e.value # None /\ e.value[1] # <<>>
                      THEN e.value[1] \o <<US>>
                      ELSE <<>>
         IN  [name |-> "CARGO_ENCODED_RUSTFLAGS",
              flags |-> flags \o <<"-", "C", US>> \o EmbedBitcode]
    ELSE LET flags == IF e.value # None /\ e.value[1] # <<>>
                      THEN e.value[1] \o <<" ">>
                      ELSE <<>>
         IN  [name |-> "RUSTFLAGS",
              flags |-> flags \o <<"-", "C", " ">> \o EmbedBitcode]

MaxEnvLen == 3

\* Characters of a pre-existing value: a letter and the two separators.
EnvChars == {"a", " ", US}

Envs ==
    [encoded : BOOLEAN,
     value : {None} \cup {Some(v) : v \in SeqUpTo(EnvChars, MaxEnvLen)}]

-----------------------------------------------------------------------------
(* Inputs of a build: probes, programs, manifests, tool outcomes            *)

Probes == {<<"a">>, <<"b">>}

MaxProbes == 2

MaxBc == 2

BcNames == 1..MaxBc

\* What a probe's source may compile to: the section names of its functions
\* and the relocations of the object the backend makes of it.
Programs == {"xdp", "tc_map", "tc_data"}

FunctionSectionNames(prog) ==
    IF prog = "xdp" THEN <<<<"x", "d", "p", "/", "a">>>>
    ELSE <<<<"m", "a", "p", "s", "/", "m">>, TcActionPrefix \o <<"a">>>>

ObjectOf(prog) ==
    [section_headers |-> <<[sh_name |-> 1], [sh_name |-> 2]>>,
     shdr_strtab |-> ShdrStrtab,
     syms |-> <<[st_shndx |-> 1,
                 st_type |-> IF prog = "tc_data" THEN STT_SECTION ELSE STT_OBJECT]>>,
     shdr_relocs |-> IF prog = "xdp" THEN <<>>
                     ELSE <<[shidx |-> 0, relocs |-> <<[r_sym |-> 0]>>]>>]

IsTcProgram(prog) ==
    \E i \in DOMAIN FunctionSectionNames(prog) :
        starts_with(FunctionSectionNames(prog)[i], TcActionPrefix)

\* bpf_sys::headers::build_kernel_version: Err, or a detected version.
KernelVersions ==
    {[version |-> 4, patchlevel |-> 19], [version |-> 5, patchlevel |-> 6],
     [version |-> 5, patchlevel |-> 7], [version |-> 5, patchlevel |-> 18]}

KernelDetections == {None} \cup {Some(v) : v \in KernelVersions}

\* CARGO_BPF_LLVM_VERSION as parsed by semver: None when it does not parse.
LinkedVersions ==
    {None,
     Some([major |-> 12, minor |-> 0, patch |-> 1]),
     Some([major |-> 12, minor |-> 1, patch |-> 0]),
     Some([major |-> 13, minor |-> 0, patch |-> 1])}

\* rustc_version::version_meta(): an error, no LLVM version in the output, or
\* the LLVM version rustc reports, of which rustc_version keeps major and
\* minor.
ActiveVersions ==
    {[meta |-> "err", major |-> 0, minor |-> 0],
     [meta |-> "no_llvm", major |-> 0, minor |-> 0]}
    \cup [meta : {"ok"}, major : {12, 13}, minor : {0, 1}]

\* Contents of target_dir/bpf/programs/<probe>.
NoFiles ==
    [dir |-> FALSE, bc |-> [n \in BcNames |-> None], opt |-> FALSE,
     tmp |-> None, elf |-> None]

\* The object the backend writes for a program: it carries debug
\* information and BTF because rustc was run with -g (line 201).  The
\* other fields record what has been done to the object: whether it is all
\* written, validated, rewritten by the BTF fixer, stripped, and with which
\* traffic-control flag; and whether this run wrote it.
NewObject(prog) ==
    [prog |-> prog, whole |-> TRUE, dbg |-> TRUE, btf |-> TRUE, legacy |-> FALSE,
     checked |-> FALSE, stripped |-> FALSE, tc |-> FALSE, gen |-> "run"]

\* Workspaces an earlier process may have left behind: nothing; a build
\* that failed validation; a published build.
StaleFailed ==
    [dir |-> TRUE,
     bc |-> [n \in BcNames |-> IF n = MaxBc THEN Some("tc_data") ELSE None],
     opt |-> TRUE,
     tmp |-> Some([NewObject("tc_data") EXCEPT !.gen = "old"]),
     elf |-> None]

StalePublished ==
    [dir |-> TRUE,
     bc |-> [n \in BcNames |-> IF n = 1 THEN Some("xdp") ELSE None],
     opt |-> TRUE,
     tmp |-> None,
     elf |-> Some([NewObject("xdp") EXCEPT !.gen = "old", !.dbg = FALSE, !.btf = FALSE,
                                           !.stripped = TRUE])]

StaleWorkspaces == {NoFiles, StaleFailed, StalePublished}

\* The "bin" item of Cargo.toml: None when it is no array of tables.
Bin(name, req) == [name |-> name, required_features |-> req]

Manifests ==
    {None,
     Some(<<Bin(<<"a">>, Some(<<"probes">>)), Bin(<<"b">>, None)>>),
     Some(<<Bin(<<"b">>, Some(<<"probes", "extra">>)), Bin(<<"a">>, Some(<<>>))>>),
     Some(<<Bin(<<"a">>, Some(<<"extra">>))>>)}

FeatureLists == {<<"probes">>, <<>>}

\* The calls made: build (lines 312-325) with a list of probes or an empty
\* one, and build_with_features with an empty list and other features.
BuildCalls ==
    [probes : SeqUpTo(Probes, MaxProbes), features : {<<"probes">>},
     force_loop_unroll : {FALSE}]
    \cup [probes : {<<>>}, features : FeatureLists, force_loop_unroll : BOOLEAN]

-----------------------------------------------------------------------------
(* build_probe, stage by stage.  Each stage maps the attempt                *)
(* [pc, probe, ws, loc, result, ign] and the outcome o of the external      *)
(* calls it makes to the attempt after it.  Locals that are not read again  *)
(* are reset.  ign collects the failed calls whose error the stage drops:   *)
(* the removal of the workspace and the read of the section names (a failed *)
(* kernel detection shows in loc.kv, a failed strip in the object).         *)

NoLocals ==
    [kv |-> None, version |-> None, linked |-> None, active |-> None,
     bc_file |-> None, contains_tc |-> FALSE, elf_bytes |-> None, fixed |-> None]

Return(at, r) == [at EXCEPT !.pc = "ret", !.result = Some(r), !.loc = NoLocals]

IOError == Err("IOError", <<>>, <<>>)

\* Lines 132-136: create target_dir, remove the probe's directory whatever
\* the outcome of the removal, create it again.
PrepareOutcomes(at) ==
    {o \in [target : BOOLEAN, rm : BOOLEAN, mk : BOOLEAN] :
        \* create_dir_all of a directory that exists succeeds
        /\ (at.ws.dir /\ ~o.rm) => o.mk
        /\ at.ws.dir => o.target
        /\ ~at.ws.dir => o.rm
        /\ ~o.target => (o.rm /\ o.mk)}

Prepare(at, o) ==
    IF ~o.target THEN Return(at, IOError)
    ELSE LET removed == IF o.rm THEN NoFiles ELSE at.ws
             ign == IF o.rm THEN at.ign ELSE at.ign \cup {"remove_failed"}
         IN  IF removed.dir THEN [at EXCEPT !.pc = "kver", !.ws = removed, !.ign = ign]
             ELSE IF o.mk
                  THEN [at EXCEPT !.pc = "kver", !.ws = [removed EXCEPT !.dir = TRUE],
                                  !.ign = ign]
                  ELSE Return([at EXCEPT !.ws = removed, !.ign = ign], IOError)

\* Lines 140-147 with the clamp on the patch level alone.
ClampPatchOnly(v) == IF v.patchlevel >= 7 THEN [v EXCEPT !.patchlevel = 7] ELSE v

\* Lines 140-147.
Clamp(v) ==
    IF v.version >= 5 /\ v.patchlevel >= 7 THEN [v EXCEPT !.patchlevel = 7] ELSE v

\* Lines 139-149.
KernelVersionCfg(detected) ==
    IF detected = None THEN KernelVersionEq \o Unknown \o <<"\"">>
    ELSE KernelVersionEq \o ToStr(Clamp(detected[1]).version) \o <<".">>
             \o ToStr(Clamp(detected[1]).patchlevel) \o <<"\"">>

ResolveKernelVersion(at, o) ==
    [at EXCEPT !.pc = "guard",
               !.loc = [at.loc EXCEPT !.kv = o, !.version = Some(KernelVersionCfg(o))]]

\* The linked version is fixed when cargo-bpf is compiled (env!, line 160);
\* the active one is what the installed rustc reports (line 163).
GuardOutcomes == [linked : LinkedVersions, active : ActiveVersions]

\* Lines 171-174 comparing the major components alone.
TooOldMajorOnly(linked, llvm_version) == linked.major < llvm_version.major

\* Lines 171-174 comparing with <= where the source has <.
TooOldOrEqual(linked, llvm_version) ==
    \/ linked.major < llvm_version.major
    \/ (linked.major = llvm_version.major /\ linked.minor <= llvm_version.minor)

\* Lines 171-174.
TooOld(linked, llvm_version) ==
    \/ linked.major < llvm_version.major
    \/ (linked.major = llvm_version.major /\ linked.minor < llvm_version.minor)

\* Lines 175-185.
VersionMessage(linked, llvm_version) ==
    <<"LLVM version that cargo-bpf linked to (">>
        \o ToStr(linked.major) \o <<".">> \o ToStr(linked.minor)
        \o <<") < LLVM version that rustc depends on (">>
        \o ToStr(llvm_version.major) \o <<".">> \o ToStr(llvm_version.minor)
        \o <<"). You should re-build cargo-bpf with LLVM version (">>
        \o ToStr(llvm_version.major) \o <<".">> \o ToStr(llvm_version.minor)
        \o <<"), or downgrade rustc that uses LLVM version (">>
        \o ToStr(linked.major) \o <<".">> \o ToStr(linked.minor) \o <<")">>

\* Lines 160-186.
Guard(at, o) ==
    IF o.linked = None
    THEN Return(at, Err("InvalidLLVMVersion",
                        <<"Unknown LLVM version that cargo-bpf linked to">>, <<>>))
    ELSE IF o.active.meta = "err"
    THEN Return(at, Err("InvalidLLVMVersion",
                        <<"Failed to get LLVM version of rustc: ">>, <<>>))
    ELSE IF o.active.meta = "no_llvm"
    THEN Return(at, Err("InvalidLLVMVersion",
                        <<"Failed to get LLVM version of rustc">>, <<>>))
    ELSE LET llvm_version == [major |-> o.active.major, minor |-> o.active.minor]
             seen == [at.loc EXCEPT !.kv = None, !.linked = o.linked,
                                    !.active = Some(o.active)]
         IN  IF TooOld(o.linked[1], llvm_version)
             THEN [Return(at, Err("InvalidLLVMVersion",
                                  VersionMessage(o.linked[1], llvm_version), <<>>))
                      EXCEPT !.loc = [NoLocals EXCEPT !.linked = o.linked,
                                                      !.active = Some(o.active)]]
             ELSE [at EXCEPT !.pc = "compile", !.loc = seen]

\* Lines 188-208: cargo rustc ... --emit=llvm-bc -o <artifacts_dir>/<probe>.
\* The compiler may fail to start, exit non-zero, or exit 0 having written
\* any number of .bc files (the first so many names) of the program it
\* compiled.
CompileOutcomes ==
    {[status |-> "spawn_err", prog |-> "xdp", files |-> {}],
     [status |-> "exit_nonzero", prog |-> "xdp", files |-> {}]}
    \cup [status : {"ok"}, prog : Programs, files : {1..k : k \in 0..MaxBc}]

Compile(at, o) ==
    IF o.status = "spawn_err" THEN Return(at, IOError)
    ELSE IF o.status = "exit_nonzero" THEN Return(at, Err("Compile", at.probe, <<>>))
    ELSE [at EXCEPT !.pc = "listbc",
                    !.loc = NoLocals,
                    !.ws = [at.ws EXCEPT !.bc = [n \in BcNames |->
                                IF n \in o.files THEN Some(o.prog) ELSE at.ws.bc[n]]]]

BcFiles(ws) == {n \in BcNames : ws.bc[n] # None}

\* Lines 221-223 rejecting only an empty listing, and taking the first
\* file of a longer one.
ChooseBcFirst(at, bc_files) ==
    IF Cardinality(bc_files) = 0 THEN Return(at, Err("MissingBitcode", at.probe, <<>>))
    ELSE [at EXCEPT !.pc = "transform",
                    !.loc = [NoLocals EXCEPT !.bc_file =
                                Some(CHOOSE n \in bc_files : \A m \in bc_files : n <= m)]]

\* Lines 221-225.
ChooseBc(at, bc_files) ==
    IF Cardinality(bc_files) # 1 THEN Return(at, Err("MissingBitcode", at.probe, <<>>))
    ELSE [at EXCEPT !.pc = "transform",
                    !.loc = [NoLocals EXCEPT !.bc_file =
                                Some(CHOOSE n \in bc_files : TRUE)]]

\* Lines 210-225: o is whether read_dir succeeds.
ListBc(at, o) ==
    IF ~o THEN Return(at, IOError) ELSE ChooseBc(at, BcFiles(at.ws))

\* llvm::compile(bc_file, target_tmp, Some(opt_bc_file)): on success the
\* object and the optimized IR are written; on failure the object may have
\* been written in part.
llvm_compile(ws, bc_file, o) ==
    IF o.ok THEN [ws EXCEPT !.tmp = Some(NewObject(ws.bc[bc_file][1])), !.opt = TRUE]
    ELSE IF o.partial
         THEN [ws EXCEPT !.tmp = Some([NewObject(ws.bc[bc_file][1]) EXCEPT !.whole = FALSE])]
         ELSE ws

TransformOutcomes ==
    {o \in [ok : BOOLEAN, partial : BOOLEAN] : o.ok => ~o.partial}

\* Lines 225-233.
Transform(at, o) ==
    LET written == llvm_compile(at.ws, at.loc.bc_file[1], o)
    IN  IF ~o.ok
        THEN Return([at EXCEPT !.ws = written],
                    Err("Compile", at.probe, <<"couldn't process IR file: ">>))
        ELSE [at EXCEPT !.pc = "names", !.ws = written]

\* llvm::get_function_section_names(bc_file): o is whether it succeeds.
get_function_section_names(ws, bc_file, o) ==
    IF o THEN Some(FunctionSectionNames(ws.bc[bc_file][1])) ELSE None

\* Lines 237-243: an Err is mapped to the empty list of names.
ContainsTc(names) ==
    LET list == IF names = None THEN <<>> ELSE names[1]
    IN  \E i \in DOMAIN list : starts_with(list[i], TcActionPrefix)

\* Lines 237-244.
SectionNames(at, o) ==
    LET contains_tc ==
            ContainsTc(get_function_section_names(at.ws, at.loc.bc_file[1], o))
    IN  [at EXCEPT !.pc = IF contains_tc THEN "read" ELSE "strip",
                   !.loc = [NoLocals EXCEPT !.contains_tc = contains_tc],
                   !.ign = IF o THEN at.ign ELSE at.ign \cup {"names_failed"}]

ReadOutcomes == {"read_err", "parse_err", "ok"}

\* Lines 245-248.
ReadObject(at, o) ==
    IF o = "read_err" THEN Return(at, IOError)
    ELSE IF o = "parse_err"
    THEN Return(at, Err("IllegalProgram", at.probe \o <<": failed to parse ELF">>, <<>>))
    ELSE [at EXCEPT !.pc = "check", !.loc = [at.loc EXCEPT !.elf_bytes = at.ws.tmp]]

\* Line 249 with the result of the validation dropped.
CheckRelocsIgnored(at, o) ==
    [at EXCEPT !.pc = "fix",
               !.loc = [at.loc EXCEPT !.elf_bytes =
                           Some([at.loc.elf_bytes[1] EXCEPT !.checked = TRUE])]]

\* Line 249.
CheckRelocs(at, o) ==
    LET r == check_tc_action_relocs(ObjectOf(at.loc.elf_bytes[1].prog))
    IN  IF r.kind # "Ok" THEN Return(at, r)
        ELSE [at EXCEPT !.pc = "fix",
                        !.loc = [at.loc EXCEPT !.elf_bytes =
                                    Some([at.loc.elf_bytes[1] EXCEPT !.checked = TRUE])]]

\* btf::tc_legacy_fix_btf_section: the object with its BTF section in the
\* legacy layout.
tc_legacy_fix_btf_section(bytes) == [bytes EXCEPT !.legacy = TRUE]

\* Line 250: o is whether the fixer succeeds.
FixBtf(at, o) ==
    IF ~o THEN Return(at, Err("BTF", <<>>, <<>>))
    ELSE [at EXCEPT !.pc = "write",
                    !.loc = [at.loc EXCEPT
                                !.fixed = Some(tc_legacy_fix_btf_section(at.loc.elf_bytes[1])),
                                !.elf_bytes = None]]

\* Line 251: o is whether fs::write succeeds.
WriteBack(at, o) ==
    IF ~o THEN Return(at, IOError)
    ELSE [at EXCEPT !.pc = "strip",
                    !.ws = [at.ws EXCEPT !.tmp = at.loc.fixed],
                    !.loc = [at.loc EXCEPT !.fixed = None]]

StripOutcomes == {"ok", "err"}

\* llvm::strip_unnecessary(target, contains_tc): removes the debug and text
\* sections, and the BTF sections unless they are to be kept.  When it
\* fails the object is as it was.
strip_unnecessary(obj, keep_btf, o) ==
    IF o = "ok" THEN [obj EXCEPT !.dbg = FALSE, !.btf = keep_btf /\ obj.btf]
    ELSE obj

\* Line 253 with the error of strip_unnecessary propagated.
StripFatal(at, o) ==
    LET stripped == strip_unnecessary(at.ws.tmp[1], at.loc.contains_tc, o)
    IN  IF o = "err" THEN Return(at, IOError)
        ELSE [at EXCEPT !.pc = "rename",
                        !.ws = [at.ws EXCEPT !.tmp =
                                   Some([stripped EXCEPT !.stripped = TRUE,
                                                         !.tc = at.loc.contains_tc])]]

\* Line 253 with the flag inverted.
StripKeepInverted(at, o) ==
    LET stripped == strip_unnecessary(at.ws.tmp[1], ~at.loc.contains_tc, o)
    IN  [at EXCEPT !.pc = "rename",
                   !.ws = [at.ws EXCEPT !.tmp =
                              Some([stripped EXCEPT !.stripped = (o = "ok"),
                                                    !.tc = at.loc.contains_tc])]]

\* Line 253: the result of strip_unnecessary is discarded.
Strip(at, o) ==
    LET stripped == strip_unnecessary(at.ws.tmp[1], at.loc.contains_tc, o)
    IN  [at EXCEPT !.pc = "rename",
                   !.ws = [at.ws EXCEPT !.tmp =
                              Some([stripped EXCEPT !.stripped = (o = "ok"),
                                                    !.tc = at.loc.contains_tc])]]

\* Lines 254-256: o is whether fs::rename succeeds.
Rename(at, o) ==
    IF ~o THEN Return(at, IOError)
    ELSE Return([at EXCEPT !.ws = [at.ws EXCEPT !.elf = at.ws.tmp, !.tmp = None]], Ok)

-----------------------------------------------------------------------------
(* probe_names                                                              *)

Contains(list, x) == \E i \in DOMAIN list : list[i] = x

\* Lines 392-403 with `any` where the source has `all`.
SelectedAny(tab, feats) ==
    IF tab.required_features # None
    THEN \E i \in DOMAIN tab.required_features[1] :
             Contains(feats, tab.required_features[1][i])
    ELSE TRUE

\* Lines 392-403 for one table of the array.
Selected(tab, feats) ==
    IF tab.required_features # None
    THEN \A i \in DOMAIN tab.required_features[1] :
             Contains(feats, tab.required_features[1][i])
    ELSE TRUE

\* Lines 390-405.
RECURSIVE NamesFrom(_, _, _)
NamesFrom(aot, feats, i) ==
    IF i > Len(aot) THEN <<>>
    ELSE (IF Selected(aot[i], feats) THEN <<aot[i].name>> ELSE <<>>)
             \o NamesFrom(aot, feats, i + 1)

\* Lines 387-409.
probe_names(bin, feats) ==
    IF bin = None THEN [err |-> Some(Err("NoPrograms", <<>>, <<>>)), names |-> <<>>]
    ELSE [err |-> None, names |-> NamesFrom(bin[1], feats, 1)]

-----------------------------------------------------------------------------
(* build_with_features                                                      *)

\* Line 134: the directory of a probe's workspace under target_dir/bpf/programs.
WorkspaceShared(probe) == <<"a">>

WorkspaceOf(probe) == probe

RefIdle ==
    [pc |-> "idle", probe |-> <<>>, ws |-> NoFiles, loc |-> NoLocals, result |-> None,
     ign |-> {}]

Attempt ==
    [pc |-> pc, probe |-> probes[idx], ws |-> fs[WorkspaceOf(probes[idx])], loc |-> loc,
     result |-> result, ign |-> {}]

BuildIdle ==
    /\ pc = "idle"
    /\ probes = <<>>
    /\ features = <<>>
    /\ doc = None
    /\ idx = 0
    /\ result = None
    /\ fs = [p \in Probes |-> NoFiles]
    /\ loc = NoLocals
    /\ done = {}
    /\ ref = RefIdle
    /\ pubs = <<>>
    /\ buildopt = [force_loop_unroll |-> FALSE]
    /\ llvm = [inits |-> 0, unroll |-> FALSE]
    /\ toolchain = [linked |-> None, active |-> [meta |-> "err", major |-> 0, minor |-> 0]]

Init ==
    /\ elf = ObjectOf("xdp")
    /\ relocOut = None
    /\ pc = "idle"
    /\ probes = <<>>
    /\ features = <<>>
    /\ doc = None
    /\ idx = 0
    /\ result = None
    /\ fs \in {f \in [Probes -> StaleWorkspaces] : \A p \in Probes \ {<<"a">>} : f[p] = NoFiles}
    /\ loc = NoLocals
    /\ done = {}
    /\ ref = RefIdle
    /\ pubs = <<>>
    /\ buildopt = [force_loop_unroll |-> FALSE]
    /\ llvm = [inits |-> 0, unroll |-> FALSE]
    /\ toolchain \in GuardOutcomes
    /\ env = NoEnv
    /\ rustflags = None

\* Lines 327-337: the call cmd_build makes (lines 358-366), and the test
\* that Cargo.toml exists.
StartBuild ==
    /\ pc = "idle"
    /\ \E call \in BuildCalls, exists \in BOOLEAN :
           /\ probes' = call.probes
           /\ features' = call.features
           /\ buildopt' = [force_loop_unroll |-> call.force_loop_unroll]
           /\ IF exists
              THEN pc' = "discover" /\ result' = None
              ELSE pc' = "done" /\ result' = Some(Err("MissingManifest", <<>>, <<>>))
    /\ doc' = None
    /\ idx' = 0
    /\ loc' = NoLocals
    /\ done' = {}
    /\ ref' = RefIdle
    /\ pubs' = <<>>
    /\ UNCHANGED <<fs, llvm, relocVars, toolchain, flagVars>>

\* Lines 339-342 without the test of line 339.
DiscoverAlways ==
    /\ pc = "discover"
    /\ \E bin \in Manifests :
           LET r == probe_names(bin, features)
           IN  /\ doc' = bin
               /\ IF r.err # None
                  THEN pc' = "done" /\ result' = r.err /\ probes' = probes
                  ELSE pc' = "llvm_init" /\ result' = result
                           /\ probes' = probes \o r.names
    /\ UNCHANGED <<features, idx, fs, loc, done, ref, pubs, buildopt, llvm, relocVars, toolchain, flagVars>>

\* Lines 339-342.
Discover ==
    /\ pc = "discover"
    /\ IF probes = <<>>
       THEN \E bin \in Manifests :
                LET r == probe_names(bin, features)
                IN  /\ doc' = bin
                    /\ IF r.err # None
                       THEN pc' = "done" /\ result' = r.err /\ probes' = probes
                       ELSE pc' = "llvm_init" /\ result' = result
                                /\ probes' = probes \o r.names
       ELSE pc' = "llvm_init" /\ UNCHANGED <<doc, result, probes>>
    /\ UNCHANGED <<features, idx, fs, loc, done, ref, pubs, buildopt, llvm, relocVars, toolchain, flagVars>>

\* Lines 344-349.
LlvmInit ==
    /\ pc = "llvm_init"
    /\ llvm' = [inits |-> llvm.inits + 1,
                unroll |-> llvm.unroll \/ buildopt.force_loop_unroll]
    /\ pc' = "loop"
    /\ UNCHANGED <<probes, features, doc, idx, result, fs, loc, done, ref, pubs,
                   buildopt, relocVars, toolchain, flagVars>>

\* Line 351: the next probe of the list, or line 355.
NextProbe ==
    /\ pc = "loop"
    /\ IF idx < Len(probes)
       THEN /\ idx' = idx + 1
            /\ pc' = "prepare"
            /\ result' = None
            /\ ref' = [pc |-> "prepare", probe |-> probes[idx + 1], ws |-> NoFiles,
                       loc |-> NoLocals, result |-> None, ign |-> {}]
       ELSE /\ pc' = "done"
            /\ result' = Some(Ok)
            /\ UNCHANGED <<idx, ref>>
    /\ loc' = NoLocals
    /\ done' = {}
    /\ UNCHANGED <<probes, features, doc, fs, pubs, buildopt, llvm, relocVars, toolchain, flagVars>>

\* Line 352 without the `?`.
ProbeReturnedContinue ==
    /\ pc = "ret"
    /\ pc' = "loop"
    /\ UNCHANGED <<probes, features, doc, idx, result, fs, loc, done, ref, pubs,
                   buildopt, llvm, relocVars, toolchain, flagVars>>

\* Line 352: `?` on the result of build_probe.
ProbeReturned ==
    /\ pc = "ret"
    /\ pc' = IF result[1].kind = "Ok" THEN "loop" ELSE "done"
    /\ UNCHANGED <<probes, features, doc, idx, result, fs, loc, done, ref, pubs,
                   buildopt, llvm, relocVars, toolchain, flagVars>>

\* One stage of build_probe on the probe's workspace; the replay against an
\* empty workspace takes the same stage with the same outcome as long as it
\* is at the same position.
Stage(name, Op(_, _), outcomes) ==
    /\ pc = name
    /\ \E o \in outcomes :
           LET n == Op(Attempt, o)
           IN  /\ pc' = n.pc
               /\ loc' = n.loc
               /\ result' = n.result
               /\ fs' = [fs EXCEPT ![WorkspaceOf(probes[idx])] = n.ws]
               /\ ref' = IF ref.pc = name THEN [Op(ref, o) EXCEPT !.ign = {}] ELSE ref
               /\ done' = done \cup {name} \cup n.ign
               /\ pubs' = IF name = "rename" /\ n.result = Some(Ok)
                          THEN Append(pubs, n.ws.elf[1])
                          ELSE pubs
    /\ UNCHANGED <<probes, features, doc, idx, buildopt, llvm, relocVars, toolchain, flagVars>>

PrepareWorkspace == Stage("prepare", Prepare, PrepareOutcomes(Attempt))

ResolveKernel == Stage("kver", ResolveKernelVersion, KernelDetections)

CheckToolchain == Stage("guard", Guard, {toolchain})

RunCompiler == Stage("compile", Compile, CompileOutcomes)

ListBitcode == Stage("listbc", ListBc, BOOLEAN)

RunTransform == Stage("transform", Transform, TransformOutcomes)

ReadSectionNames == Stage("names", SectionNames, BOOLEAN)

ReadAndParse == Stage("read", ReadObject, ReadOutcomes)

ValidateRelocs == Stage("check", CheckRelocs, {TRUE})

FixBtfSection == Stage("fix", FixBtf, BOOLEAN)

WriteFixed == Stage("write", WriteBack, BOOLEAN)

StripSections == Stage("strip", Strip, StripOutcomes)

Publish == Stage("rename", Rename, BOOLEAN)

Next ==
    \/ StartBuild
    \/ Discover
    \/ LlvmInit
    \/ NextProbe
    \/ ProbeReturned
    \/ PrepareWorkspace
    \/ ResolveKernel
    \/ CheckToolchain
    \/ RunCompiler
    \/ ListBitcode
    \/ RunTransform
    \/ ReadSectionNames
    \/ ReadAndParse
    \/ ValidateRelocs
    \/ FixBtfSection
    \/ WriteFixed
    \/ StripSections
    \/ Publish

Spec == Init /\ [][Next]_vars

-----------------------------------------------------------------------------
(* probe_names applied to every manifest within the bounds                  *)

MaxBins == 2

MaxReq == 2

FeatureNames == {"probes", "extra"}

\* The [[bin]] tables of a manifest: a name and, possibly, required-features.
Bins ==
    {Bin(name, req) : name \in Probes,
                      req \in {None} \cup {Some(l) : l \in SeqUpTo(FeatureNames, MaxReq)}}

BoundedManifests == {None} \cup {Some(aot) : aot \in SeqUpTo(Bins, MaxBins) \ {<<>>}}

InitNames ==
    /\ doc \in BoundedManifests
    /\ features \in SeqUpTo(FeatureNames, MaxReq)
    /\ pc = "idle"
    /\ probes = <<>>
    /\ idx = 0
    /\ result = None
    /\ fs = [p \in Probes |-> NoFiles]
    /\ loc = NoLocals
    /\ done = {}
    /\ ref = RefIdle
    /\ pubs = <<>>
    /\ buildopt = [force_loop_unroll |-> FALSE]
    /\ llvm = [inits |-> 0, unroll |-> FALSE]
    /\ toolchain = [linked |-> None, active |-> [meta |-> "err", major |-> 0, minor |-> 0]]
    /\ elf = ObjectOf("xdp")
    /\ relocOut = None
    /\ env = NoEnv
    /\ rustflags = None

\* Line 341: probe_names(&doc, &features).
CallProbeNames ==
    /\ result = None
    /\ LET r == probe_names(doc, features)
       IN  /\ result' = IF r.err # None THEN r.err ELSE Some(Ok)
           /\ probes' = r.names
    /\ UNCHANGED <<pc, features, doc, idx, fs, loc, done, ref, pubs, buildopt, llvm,
                   toolchain, relocVars, flagVars>>

NextNames == CallProbeNames

SpecNames == InitNames /\ [][NextNames]_vars

-----------------------------------------------------------------------------
(* create_rustflags applied to every environment within the bounds          *)

InitFlags ==
    /\ env \in Envs
    /\ rustflags = None
    /\ elf = ObjectOf("xdp")
    /\ relocOut = None
    /\ BuildIdle

\* Line 138.
CreateRustflags ==
    /\ rustflags = None
    /\ rustflags' = Some(create_rustflags(env))
    /\ UNCHANGED <<env, relocVars, buildVars>>

NextFlags == CreateRustflags

SpecFlags == InitFlags /\ [][NextFlags]_vars

-----------------------------------------------------------------------------
(* A process that calls build more than once                                *)

MaxInits == 2

\* The files of a workspace as a later invocation finds them.
Aged(ws) ==
    [ws EXCEPT !.tmp = IF ws.tmp = None THEN None ELSE Some([ws.tmp[1] EXCEPT !.gen = "old"]),
               !.elf = IF ws.elf = None THEN None ELSE Some([ws.elf[1] EXCEPT !.gen = "old"])]

\* Lines 312-337 again in the same process, once the previous invocation
\* has returned: build and build_with_features are public and keep no
\* record of having run.  The probes named over the invocations of one
\* process are kept within MaxProbes.
BuildAgain ==
    /\ pc = "done"
    /\ llvm.inits < MaxInits
    /\ \E call \in BuildCalls, exists \in BOOLEAN :
           /\ IF call.probes = <<>> THEN probes = <<>>
              ELSE Len(probes) + Len(call.probes) <= MaxProbes
           /\ probes' = call.probes
           /\ features' = call.features
           /\ buildopt' = [force_loop_unroll |-> call.force_loop_unroll]
           /\ IF exists
              THEN pc' = "discover" /\ result' = None
              ELSE pc' = "done" /\ result' = Some(Err("MissingManifest", <<>>, <<>>))
    /\ doc' = None
    /\ idx' = 0
    /\ loc' = NoLocals
    /\ done' = {}
    /\ ref' = RefIdle
    /\ pubs' = <<>>
    /\ fs' = [p \in Probes |-> Aged(fs[p])]
    /\ UNCHANGED <<llvm, relocVars, toolchain, flagVars>>

NextProcess ==
    \/ StartBuild
    \/ BuildAgain
    \/ Discover
    \/ LlvmInit
    \/ NextProbe
    \/ ProbeReturned
    \/ PrepareWorkspace
    \/ ResolveKernel
    \/ CheckToolchain
    \/ RunCompiler
    \/ ListBitcode
    \/ RunTransform
    \/ ReadSectionNames
    \/ ReadAndParse
    \/ ValidateRelocs
    \/ FixBtfSection
    \/ WriteFixed
    \/ StripSections
    \/ Publish

SpecProcess == Init /\ [][NextProcess]_vars

-----------------------------------------------------------------------------
(* The validator applied to every object within the bounds                  *)

InitRelocs ==
    /\ elf \in Elfs
    /\ relocOut = None
    /\ BuildIdle
    /\ env = NoEnv
    /\ rustflags = None

CheckTcActionRelocs ==
    /\ relocOut = None
    /\ relocOut' = Some(check_tc_action_relocs(elf))
    /\ UNCHANGED <<elf, buildVars, flagVars>>

NextRelocs == CheckTcActionRelocs

SpecRelocs == InitRelocs /\ [][NextRelocs]_vars

-----------------------------------------------------------------------------
(* Properties of check_tc_action_relocs                                     *)

\* The relocation tables of the object whose section name is known and
\* begins with ".reltc_action/".
TcRelSecs(binary) ==
    {i \in DOMAIN binary.shdr_relocs :
        LET shidx == binary.shdr_relocs[i].shidx
        IN  /\ shidx + 1 \in DOMAIN binary.section_headers
            /\ binary.section_headers[shidx + 1].sh_name \in DOMAIN binary.shdr_strtab
            /\ starts_with(
                   binary.shdr_strtab[binary.section_headers[shidx + 1].sh_name],
                   RelTcActionPrefix)}

\* The symbols referenced by the relocations of table i.
ReferencedSyms(binary, i) ==
    {binary.syms[binary.shdr_relocs[i].relocs[j].r_sym + 1] :
        j \in {k \in DOMAIN binary.shdr_relocs[i].relocs :
                  binary.shdr_relocs[i].relocs[k].r_sym + 1 \in DOMAIN binary.syms}}

\* The symbol's section index names a section header whose name is in the
\* string table.
SectionResolves(binary, sym) ==
    /\ sym.st_shndx + 1 \in DOMAIN binary.section_headers
    /\ binary.section_headers[sym.st_shndx + 1].sh_name \in DOMAIN binary.shdr_strtab

\* C3 as claimed: whenever check_tc_action_relocs returns Ok, no relocation
\* of a ".reltc_action/" table references a symbol of type STT_SECTION,
\* whatever the symbol table and the section headers look like.
C3_OkMeansNoSectionSymbol ==
    relocOut = Some(Ok) =>
        \A i \in TcRelSecs(elf) :
            \A sym \in ReferencedSyms(elf, i) : sym.st_type # STT_SECTION

\* C3 as amended: whenever check_tc_action_relocs returns Ok, no relocation
\* of a ".reltc_action/" table references a symbol of type STT_SECTION whose
\* section index resolves to a section header with a name in the string
\* table.
C3_OkMeansNoResolvedSectionSymbol ==
    relocOut = Some(Ok) =>
        \A i \in TcRelSecs(elf) :
            \A sym \in ReferencedSyms(elf, i) :
                SectionResolves(elf, sym) => sym.st_type # STT_SECTION

\* An accepted object that has a traffic-control relocation against a
\* resolvable, non-section symbol.
C3_Witness ==
    /\ relocOut = Some(Ok)
    /\ \E i \in TcRelSecs(elf) :
           \E sym \in ReferencedSyms(elf, i) :
               SectionResolves(elf, sym) /\ sym.st_type = STT_OBJECT

\* The relocations the validator is specified to reject.
HasIllegalTcReloc(binary) ==
    \E i \in TcRelSecs(binary) :
        \E sym \in ReferencedSyms(binary, i) :
            SectionResolves(binary, sym) /\ sym.st_type = STT_SECTION

\* C4: an object with a ".reltc_action/" relocation resolving to a
\* section-typed data section fails with IllegalProgram; the same object
\* with that relocation resolving to a non-section-typed symbol passes;
\* relocations in tables without the prefix never cause a failure.
C4_RejectsExactlyTcSectionRelocs ==
    relocOut # None =>
        /\ HasIllegalTcReloc(elf) => relocOut[1].kind = "IllegalProgram"
        /\ ~HasIllegalTcReloc(elf) => relocOut[1] = Ok
        /\ relocOut[1].kind \in {"Ok", "IllegalProgram"}

\* A rejected object whose only traffic-control relocation resolves to a
\* section-typed symbol, next to a section-typed relocation in a table
\* without the prefix.
C4_Witness ==
    /\ relocOut # None
    /\ relocOut[1].kind = "IllegalProgram"
    /\ Cardinality(TcRelSecs(elf)) = 1
    /\ Len(elf.shdr_relocs) = 2
    /\ \A i \in DOMAIN elf.shdr_relocs :
           /\ Len(elf.shdr_relocs[i].relocs) = 1
           /\ \A sym \in ReferencedSyms(elf, i) :
                  SectionResolves(elf, sym) /\ sym.st_type = STT_SECTION

-----------------------------------------------------------------------------
(* Properties of build_probe and build_with_features                        *)

\* The probe being built, or last built, and its workspace.
CurProbe == probes[idx]

CurWs == fs[WorkspaceOf(probes[idx])]

Failed == result # None /\ result[1].kind # "Ok"

LinkedAtLeastActive(L, A) ==
    L.major > A.major \/ (L.major = A.major /\ L.minor >= A.minor)

\* C1: with both versions known, the compatibility check passes exactly
\* when (L.major, L.minor) >= (A.major, A.minor) lexicographically,
\* whatever the patch components, and fails with InvalidLLVMVersion
\* otherwise.
C1_GuardPassesIffLinkedAtLeastActive ==
    (pc \in {"compile", "ret"} /\ loc.linked # None /\ loc.active # None) =>
        /\ pc = "compile" <=> LinkedAtLeastActive(loc.linked[1], loc.active[1])
        /\ pc = "ret" => result[1].kind = "InvalidLLVMVersion"

\* The check has failed on a linked version that is behind on the minor
\* component only and has the higher patch component.
C1_Witness ==
    /\ pc = "ret"
    /\ loc.linked # None /\ loc.active # None
    /\ loc.linked[1].major = loc.active[1].major
    /\ loc.linked[1].minor < loc.active[1].minor
    /\ loc.linked[1].patch = 1
    /\ result[1].kind = "InvalidLLVMVersion"

\* C2: a final artifact written by this run is a whole object, and if its
\* program is of the traffic-control class it has passed the relocation
\* validation and had its BTF section rewritten.
C2_PublishedMeansValidated ==
    \A p \in Probes :
        (fs[p].elf # None /\ fs[p].elf[1].gen = "run") =>
            /\ fs[p].elf[1].whole
            /\ IsTcProgram(fs[p].elf[1].prog) =>
                   (fs[p].elf[1].checked /\ fs[p].elf[1].legacy)

\* The attempt has ended in the listing of the .bc files.
EndedAtListing == pc = "ret" /\ "listbc" \in done /\ "transform" \notin done

\* C5 as claimed: the transformer runs only with exactly one .bc file in the
\* directory; with none or several, build_probe returns MissingBitcode
\* naming the probe, without running the transformer or publishing.
C5_OnlyOneBitcodeElseMissingBitcode ==
    /\ (idx >= 1 /\ (pc = "transform" \/ "transform" \in done)) =>
           Cardinality(BcFiles(CurWs)) = 1
    /\ (EndedAtListing /\ Cardinality(BcFiles(CurWs)) # 1) =>
           /\ result = Some(Err("MissingBitcode", CurProbe, <<>>))
           /\ "rename" \notin done
           /\ Len(pubs) = idx - 1

\* C5 as amended: the transformer runs only with exactly one .bc file in the
\* directory; with none or several, build_probe returns MissingBitcode
\* naming the probe, or the I/O error of the directory listing when that
\* fails, without running the transformer or publishing.
C5_OnlyOneBitcodeElseError ==
    /\ (idx >= 1 /\ (pc = "transform" \/ "transform" \in done)) =>
           Cardinality(BcFiles(CurWs)) = 1
    /\ (EndedAtListing /\ Cardinality(BcFiles(CurWs)) # 1) =>
           /\ result \in {Some(Err("MissingBitcode", CurProbe, <<>>)), Some(IOError)}
           /\ "rename" \notin done
           /\ Len(pubs) = idx - 1
    /\ (EndedAtListing /\ result[1].kind = "MissingBitcode") =>
           Cardinality(BcFiles(CurWs)) # 1

\* The compiler has left two .bc files and the attempt has ended with
\* MissingBitcode for the probe.
C5_Witness ==
    /\ EndedAtListing
    /\ Cardinality(BcFiles(CurWs)) = 2
    /\ result = Some(Err("MissingBitcode", CurProbe, <<>>))

\* The fact the claim expects for a detection result.
ExpectedFact(detected) ==
    IF detected = None
    THEN KernelVersionEq \o <<"u", "n", "k", "n", "o", "w", "n", "\"">>
    ELSE KernelVersionEq \o ToStr(detected[1].version) \o <<".">>
             \o (IF detected[1].version >= 5 /\ detected[1].patchlevel >= 7
                 THEN <<"7">>
                 ELSE ToStr(detected[1].patchlevel))
             \o <<"\"">>

\* C6: the injected fact is kernel_version="<major>.7" for major >= 5 and
\* patch >= 7, kernel_version="<major>.<patch>" otherwise, and
\* kernel_version="unknown" when detection fails; in each case the build
\* goes on to the next stage.
C6_KernelVersionFact ==
    ("kver" \in done /\ "guard" \notin done) =>
        /\ pc = "guard"
        /\ result = None
        /\ loc.version = Some(ExpectedFact(loc.kv))

\* Kernel 5.18 has been detected and the build goes on with 5.7.
C6_Witness ==
    /\ pc = "guard"
    /\ loc.kv = Some([version |-> 5, patchlevel |-> 18])
    /\ loc.version = Some(KernelVersionEq \o <<"5", ".", "7", "\"">>)

ProbeFailed == pc \in {"ret", "done"} /\ idx >= 1 /\ Failed

\* C8 as claimed: when the build of a probe fails, the artifact of every
\* probe published earlier in the run is still there, unchanged.
C8_EarlierArtifactsKept ==
    ProbeFailed =>
        \A j \in 1..(idx - 1) : fs[WorkspaceOf(probes[j])].elf = Some(pubs[j])

\* C8 as amended: when the build of a probe fails, the artifact of every
\* probe published earlier in the run is still there, unchanged, unless the
\* same probe name occurs again later in the list, up to the failed probe.
C8_EarlierArtifactsOfOtherProbesKept ==
    ProbeFailed =>
        \A j \in 1..(idx - 1) :
            (\A k \in (j + 1)..idx : probes[k] # probes[j]) =>
                fs[WorkspaceOf(probes[j])].elf = Some(pubs[j])

\* The second probe of the list has failed after the first, another probe,
\* was published.
C8_Witness ==
    /\ ProbeFailed
    /\ idx = 2
    /\ probes[1] # probes[2]
    /\ fs[WorkspaceOf(probes[1])].elf = Some(pubs[1])

\* C9: an attempt ends with the result and the workspace contents it would
\* have ended with, the external calls behaving the same, had the workspace
\* been empty when it started.
C9_SameAsFromEmptyWorkspace ==
    pc = "ret" =>
        /\ ref.pc = "ret"
        /\ ref.result = result
        /\ ref.ws = CurWs

\* C10: when an attempt returns, <probe>.elf is in the probe's workspace if
\* the result is Ok and is not there if the result is an error.
C10_ArtifactPresentIffOk ==
    pc = "ret" => (result[1].kind = "Ok" <=> CurWs.elf # None)

\* C11: in one invocation the toolchain compatibility check is made once,
\* and when control reaches it no probe has been touched: no workspace has
\* been deleted or created and no probe has been compiled.
C11_GuardOnceBeforeAnyProbe ==
    pc = "guard" => (idx = 1 /\ "prepare" \notin done)

\* The linked version is behind the one rustc reports on (major, minor).
LinkedBehind ==
    /\ toolchain.linked # None
    /\ toolchain.active.meta = "ok"
    /\ ~LinkedAtLeastActive(toolchain.linked[1], toolchain.active)

\* Neither the compiler nor the transformer has run and nothing has been
\* published in this run.
NothingBuilt ==
    /\ done \cap {"compile", "listbc", "transform", "names", "read", "check", "fix",
                   "write", "strip", "rename"} = {}
    /\ pc \notin {"compile", "listbc", "transform", "names", "read", "check", "fix",
                   "write", "strip", "rename"}
    /\ idx <= 1
    /\ pubs = <<>>
    /\ \A p \in Probes :
           /\ fs[p].tmp # None => fs[p].tmp[1].gen = "old"
           /\ fs[p].elf # None => fs[p].elf[1].gen = "old"

C13_StripFailureNeverBlocks ==
    /\ ("strip" \in done /\ "rename" \notin done) =>
           /\ pc = "rename"
           /\ result = None
           /\ CurWs.tmp # None
    /\ ("rename" \in done /\ pc = "ret") =>
           /\ result[1] \in {Ok, IOError}
           /\ result[1] = Ok =>
                  /\ CurWs.tmp = None
                  /\ CurWs.elf # None
                  /\ CurWs.elf[1].gen = "run"
                  /\ pubs # <<>> /\ pubs[Len(pubs)] = CurWs.elf[1]

\* An attempt has returned Ok and published an object that stripping failed
\* on: it still has its debug sections.
C13_Witness ==
    /\ pc = "ret"
    /\ result = Some(Ok)
    /\ CurWs.elf # None
    /\ CurWs.elf[1].gen = "run"
    /\ ~CurWs.elf[1].stripped
    /\ CurWs.elf[1].dbg

\* C14: a failed stripping step and a failed kernel-version detection are
\* the only failures an attempt goes past; an attempt in which the removal
\* of the workspace or the read of the function section names failed
\* returns an error and publishes nothing.
C14_OnlyStripAndDetectionTolerated ==
    (pc = "ret" /\ done \cap {"remove_failed", "names_failed"} # {}) =>
        /\ result[1].kind # "Ok"
        /\ Len(pubs) = idx - 1

\* C15: over the invocations of one process the backend is initialized
\* once, before any transformation, and loop unrolling is forced only on
\* request and together with the initialization.
C15_BackendInitializedOnce ==
    /\ [](llvm.inits <= 1)
    /\ []((pc = "transform" \/ "transform" \in done) => llvm.inits = 1)
    /\ [][llvm'.unroll # llvm.unroll =>
              (buildopt.force_loop_unroll /\ llvm'.inits = llvm.inits + 1)]_vars

\* The tables whose required features, if any, are all among feats.
Eligible(aot, feats) ==
    {i \in DOMAIN aot :
        \/ aot[i].required_features = None
        \/ {aot[i].required_features[1][k] : k \in DOMAIN aot[i].required_features[1]}
               \subseteq {feats[k] : k \in DOMAIN feats}}

\* names lists the names of the eligible tables, in the order of the tables.
IsNamesOf(names, aot, feats) ==
    /\ Len(names) = Cardinality(Eligible(aot, feats))
    /\ \E f \in [DOMAIN names -> Eligible(aot, feats)] :
           /\ \A k \in DOMAIN names, l \in DOMAIN names : k < l => f[k] < f[l]
           /\ \A k \in DOMAIN names : names[k] = aot[f[k]].name

\* C16: a list that is empty on entry holds, once discovery is over, the
\* discovered names in discovery order, and keeps them when a probe fails;
\* a list that is not empty on entry bypasses discovery and is never
\* changed; the probes are built one by one in the order of the list, each
\* in its own workspace, and all of them when build returns Ok.
C16_ProbeListPopulatedOrKept ==
    /\ []((pc \notin {"idle", "discover"} /\ doc # None) =>
              IsNamesOf(probes, doc[1], features))
    /\ []((pc = "done" /\ result = Some(Ok)) =>
              (idx = Len(probes) /\ Len(pubs) = Len(probes)))
    /\ [][(pc = "discover" /\ probes # <<>>) => (probes' = probes /\ doc' = None)]_vars
    /\ [][pc \notin {"idle", "discover"} => probes' = probes]_vars
    /\ [][idx' # idx => (idx' = idx + 1 /\ idx' \in DOMAIN probes)]_vars
    /\ [][\A p \in Probes : fs'[p] # fs[p] => p = WorkspaceOf(probes[idx])]_vars

\* A run that discovered two probes has failed at the second and the list
\* holds both names.
C16_Witness ==
    /\ pc = "done"
    /\ doc # None
    /\ Failed
    /\ idx = 2
    /\ Len(probes) = 2
    /\ IsNamesOf(probes, doc[1], features)

\* C17: probe_names returns, in manifest order, the names of the [[bin]]
\* tables whose required features are all active or that declare none, and
\* fails with NoPrograms when the manifest has no [[bin]] tables.
C17_ProbeNamesSelectsBySubset ==
    result # None =>
        IF doc = None
        THEN result = Some(Err("NoPrograms", <<>>, <<>>)) /\ probes = <<>>
        ELSE result = Some(Ok) /\ IsNamesOf(probes, doc[1], features)

\* Of two tables, the first left out for a required feature that is not
\* active next to one that is, the second returned.
C17_Witness ==
    /\ result = Some(Ok)
    /\ doc # None
    /\ Len(doc[1]) = 2
    /\ Eligible(doc[1], features) = {2}
    /\ doc[1][1].required_features # None
    /\ \E k \in DOMAIN doc[1][1].required_features[1] :
           Contains(features, doc[1][1].required_features[1][k])
    /\ probes = <<doc[1][2].name>>

\* The stages of build_probe in the order of the source.
StageRank ==
    [prepare |-> 1, kver |-> 2, guard |-> 3, compile |-> 4, listbc |-> 5,
     transform |-> 6, names |-> 7, read |-> 8, check |-> 9, fix |-> 10,
     write |-> 11, strip |-> 12, rename |-> 13]

StageNames == DOMAIN StageRank

TcStages == {"read", "check", "fix", "write"}

\* C18: the stages of an attempt run in the order compile, transform,
\* validation, BTF rewrite, strip, rename, each at most once; the
\* traffic-control flag is set once, from the function section names;
\* validation and BTF rewrite run only with the flag true, the rewrite only
\* after a validation that returned Ok; a failed validation ends the
\* attempt with the temporary object as it was, no rewrite and no rename.
C18_StagesInOrder ==
    /\ [](pc \in StageNames =>
              \A s \in done \cap StageNames : StageRank[s] < StageRank[pc])
    /\ [](pc \in TcStages => loc.contains_tc)
    /\ []((pc \in {"ret", "done"} /\ result[1].kind = "IllegalProgram"
              /\ "check" \in done) =>
                 /\ done \cap {"fix", "write", "strip", "rename"} = {}
                 /\ CurWs.tmp # None
                 /\ ~CurWs.tmp[1].legacy /\ ~CurWs.tmp[1].stripped /\ CurWs.tmp[1].dbg
                 /\ Len(pubs) = idx - 1)
    /\ [][pc = "names" =>
              (loc'.contains_tc => IsTcProgram(CurWs.bc[loc.bc_file[1]][1]))]_vars
    /\ [][(pc \in TcStages \cup {"strip"} /\ pc' # "ret") =>
              loc'.contains_tc = loc.contains_tc]_vars
    /\ [][pc' = "fix" =>
              (pc = "check" /\ ~HasIllegalTcReloc(ObjectOf(CurWs.tmp[1].prog)))]_vars
    /\ [][(pc = "check" /\ HasIllegalTcReloc(ObjectOf(CurWs.tmp[1].prog))) =>
              (pc' = "ret" /\ result'[1].kind = "IllegalProgram" /\ fs' = fs)]_vars

\* The validation has failed on a program with a relocation against a data
\* section, and the temporary object is the one the transformer wrote.
C18_Witness ==
    /\ pc = "ret"
    /\ result[1].kind = "IllegalProgram"
    /\ done \cap {"check", "fix", "rename"} = {"check"}
    /\ CurWs.tmp = Some(NewObject("tc_data"))
    /\ CurWs.elf = None

\* The run has ended with the failure of the probe at position idx.
RunFailedAtProbe == pc = "done" /\ idx >= 1 /\ Failed

\* A probe's failure ends the run with that probe's error, and nothing is
\* done after the run has ended.
StopsAtFailure ==
    /\ [][(pc = "ret" /\ Failed) =>
              (pc' = "done" /\ result' = result /\ idx' = idx /\ fs' = fs)]_vars
    /\ [][pc = "done" => FALSE]_vars
    /\ [][\A p \in Probes : fs'[p] # fs[p] => p = WorkspaceOf(probes[idx])]_vars
    /\ [][idx' # idx => (idx' = idx + 1 /\ (idx >= 1 => result = Some(Ok)))]_vars

\* C19 as claimed: the probes are built one at a time in list order and the
\* run stops at the first failure with that probe's error; every probe
\* before the failed one has a published artifact, and no probe after it is
\* touched.
C19_StopsAtFirstFailure ==
    /\ StopsAtFailure
    /\ [](RunFailedAtProbe =>
              /\ Len(pubs) = idx - 1
              /\ \A j \in 1..(idx - 1) :
                     fs[WorkspaceOf(probes[j])].elf = Some(pubs[j]))

\* C19 as amended: as claimed, except that a probe before the failed one
\* whose name occurs again later in the list, up to the failed probe, has
\* been published but need not have its artifact any more.
C19_StopsAtFirstFailureKeepsOthers ==
    /\ StopsAtFailure
    /\ [](RunFailedAtProbe =>
              /\ Len(pubs) = idx - 1
              /\ \A j \in 1..(idx - 1) :
                     /\ pubs[j].gen = "run"
                     /\ (\A k \in (j + 1)..idx : probes[k] # probes[j]) =>
                            fs[WorkspaceOf(probes[j])].elf = Some(pubs[j]))

\* A run over two different probes has ended with the failure of the first,
\* and the workspace of the second is as it was found.
C19_Witness ==
    /\ RunFailedAtProbe
    /\ idx = 1
    /\ Len(probes) = 2
    /\ probes[2] # probes[1]
    /\ pubs = <<>>
    /\ fs[WorkspaceOf(probes[2])] \in StaleWorkspaces

\* The separator of the flag list and the flag appended to it.
Separator == IF env.encoded THEN US ELSE " "

NewFlag == <<"-", "C", Separator>> \o EmbedBitcode

====
